---- MODULE Spec2Model ----
(***************************************************************************)
(* hikvision_isapi_utils: the blocking Client (client.py, on               *)
(* requests.Session) and the AsyncClient (asyncclient.py, on               *)
(* httpx.AsyncClient).  Both build a base URL, issue a request, refresh    *)
(* the Digest auth object once on a 401, and release the session.          *)
(*                                                                         *)
(* Text is a sequence of one-character strings, so that lower() and the    *)
(* f-string formatting of the base URL are computed, not assumed.          *)
(* A missing port (Python None) is the empty sequence <<>>, a given port   *)
(* n is <<n>>.                                                             *)
(*                                                                         *)
(* A physical exchange is one call of session.request / client.request on  *)
(* the transport; what it ends in (a status or a transport failure) is     *)
(* chosen by the device and the network.  The method, the endpoint and     *)
(* urljoin (client.py:74, asyncclient.py:79) do not bear on the steps      *)
(* modelled here and are left out; a log record keeps its level, the       *)
(* message it is, and the values its f-string interpolates.                *)
(*                                                                         *)
(* Spec follows requests on an open client, SpecFair does so given that    *)
(* every exchange ends, SpecLife adds close() and the with block, SpecPair *)
(* drives both variants by the same operations, and SpecCtor runs the      *)
(* constructors over their arguments.                                      *)
(***************************************************************************)
EXTENDS Integers, Sequences, FiniteSets, TLC

VARIABLES mode, args, sync, async, httpx, nAuth, scall, acall, tasks, scope, ops

vars == <<mode, args, sync, async, httpx, nAuth, scall, acall, tasks, scope, ops>>

(***************************************************************************)
(* Bounds of the model.                                                    *)
(***************************************************************************)
MaxTasks == 2
MaxOps == 3

(***************************************************************************)
(* Text helpers.                                                           *)
(***************************************************************************)
UpperChars == <<"A","B","C","D","E","F","G","H","I","J","K","L","M",
                "N","O","P","Q","R","S","T","U","V","W","X","Y","Z">>
LowerChars == <<"a","b","c","d","e","f","g","h","i","j","k","l","m",
                "n","o","p","q","r","s","t","u","v","w","x","y","z">>

\* str.lower() on one character
LowerChar(c) ==
  IF \E i \in 1..26 : UpperChars[i] = c
  THEN LowerChars[CHOOSE i \in 1..26 : UpperChars[i] = c]
  ELSE c

\* str.lower(): client.py:39, asyncclient.py:40
Lower(s) == [i \in 1..Len(s) |-> LowerChar(s[i])]

Digits == <<"0","1","2","3","4","5","6","7","8","9">>

RECURSIVE ToDecimal(_)
\* the f-string rendering of a non-negative int: client.py:44
ToDecimal(n) ==
  IF n < 10 THEN <<Digits[n + 1]>>
  ELSE ToDecimal(n \div 10) \o <<Digits[(n % 10) + 1]>>

HTTPS == <<"h","t","t","p","s">>

\* the https default is forgotten
DefaultPortAlways80(protocol) == 80

\* (443 if self.protocol == 'https' else 80): client.py:43, asyncclient.py:44
DefaultPort(protocol) == IF protocol = HTTPS THEN 443 ELSE 80

\* port if port is not None else default: client.py:43, asyncclient.py:44
PortOf(port, protocol) == IF port # <<>> THEN port[1] ELSE DefaultPort(protocol)

\* f"{self.protocol}://{self.ip}:{self.port}": client.py:44, asyncclient.py:45
BaseUrl(protocol, ip, port) ==
  protocol \o <<":","/","/">> \o ip \o <<":">> \o ToDecimal(port)

(***************************************************************************)
(* Auth objects.  HTTPDigestAuth(u, p) / DigestAuth(u, p) builds a new     *)
(* object; its identity is the number of objects the client built so far.  *)
(***************************************************************************)
NoAuth == [id |-> 0, username |-> "", password |-> ""]

\* the object built at construction is bound again instead of a new one
NewAuthStale(n, username, password) ==
  [id |-> 1, username |-> username, password |-> password]

\* HTTPDigestAuth(username, password): client.py:46,81;
\* DigestAuth(username, password): asyncclient.py:47,86
NewAuth(n, username, password) ==
  [id |-> n + 1, username |-> username, password |-> password]

(***************************************************************************)
(* Transport options (the kwargs of the constructors): a function from the *)
(* supplied keys to their values.                                          *)
(***************************************************************************)
\* the attributes of a requests.Session object that hasattr() finds among the
\* option names used here (timeout is a per-request argument of requests,
\* not an attribute of Session)
SessionAttrs == {"headers", "cookies", "auth", "proxies", "hooks", "params",
                 "verify", "cert", "stream", "trust_env", "max_redirects"}

\* hasattr(self.session, key): client.py:51
SessionHasAttr(key) == key \in SessionAttrs

\* self.session.verify = False, then the kwargs loop: client.py:48-52
SessionConf(kwargs) ==
  [k \in {"verify"} \cup {x \in DOMAIN kwargs : SessionHasAttr(x)} |->
     IF k \in DOMAIN kwargs /\ SessionHasAttr(k) THEN kwargs[k] ELSE "False"]

\* kwargs.setdefault('verify', False): asyncclient.py:49
ClientKwargs(kwargs) ==
  [k \in {"verify"} \cup DOMAIN kwargs |->
     IF k \in DOMAIN kwargs THEN kwargs[k] ELSE "False"]

(***************************************************************************)
(* Construction.                                                           *)
(***************************************************************************)
\* Client.__init__: client.py:39-52
ClientInit(a) ==
  LET protocol == Lower(a.protocol)
      port == PortOf(a.port, protocol)
  IN [constructed |-> TRUE,
      protocol |-> protocol,
      ip |-> a.ip,
      username |-> a.username,
      password |-> a.password,
      port |-> port,
      base_url |-> BaseUrl(protocol, a.ip, port),
      session |-> [auth |-> NewAuth(0, a.username, a.password),
                   conf |-> SessionConf(a.kwargs),
                   closeCalls |-> 0,
                   sent |-> 0]]

\* AsyncClient.__init__: asyncclient.py:40-52.  _client = 0 is None.
AsyncClientInit(a) ==
  LET protocol == Lower(a.protocol)
      port == PortOf(a.port, protocol)
  IN [constructed |-> TRUE,
      protocol |-> protocol,
      ip |-> a.ip,
      username |-> a.username,
      password |-> a.password,
      port |-> port,
      base_url |-> BaseUrl(protocol, a.ip, port),
      auth |-> NewAuth(0, a.username, a.password),
      client_kwargs |-> ClientKwargs(a.kwargs),
      _client |-> 0]

NoClient == [constructed |-> FALSE]

(***************************************************************************)
(* What one physical exchange on the transport ends in: a response with a  *)
(* status, or a transport failure.  The failure kinds are events on the    *)
(* wire; each library raises its own exception class for them.             *)
(***************************************************************************)
Statuses == {200, 401, 404, 500}
Failures == {"connect_timeout", "read_timeout", "refused", "reset", "redirects"}

Resp(st) == [kind |-> "response", status |-> st, fail |-> "none"]
Fail(f) == [kind |-> "failure", status |-> 0, fail |-> f]

Outcomes == {Resp(st) : st \in Statuses} \cup {Fail(f) : f \in Failures}
NoOutcome == [kind |-> "none", status |-> 0, fail |-> "none"]

\* The classes of requests.exceptions (client.py:8) the raised exception is
\* an instance of: ConnectTimeout derives from ConnectionError and Timeout,
\* ReadTimeout from Timeout, a refused or reset connection raises
\* ConnectionError, TooManyRedirects derives from RequestException only.
SyncIsA(f) ==
  CASE f = "connect_timeout" -> {"Timeout", "ConnectionError", "RequestException"}
    [] f = "read_timeout" -> {"Timeout", "RequestException"}
    [] f = "refused" -> {"ConnectionError", "RequestException"}
    [] f = "reset" -> {"ConnectionError", "RequestException"}
    [] f = "redirects" -> {"RequestException"}
    [] OTHER -> {}

\* The classes imported from httpx (asyncclient.py:9) the raised exception is
\* an instance of: ConnectTimeout and ReadTimeout derive from
\* TimeoutException, a refused connection raises ConnectError, a connection
\* reset while the response is awaited raises ReadError (a NetworkError that
\* is no ConnectError), TooManyRedirects derives from RequestError only.
\* The RuntimeError of a closed httpx client is none of them.
AsyncIsA(f) ==
  CASE f = "connect_timeout" -> {"TimeoutException", "RequestError"}
    [] f = "read_timeout" -> {"TimeoutException", "RequestError"}
    [] f = "refused" -> {"ConnectError", "RequestError"}
    [] f = "reset" -> {"RequestError"}
    [] f = "redirects" -> {"RequestError"}
    [] OTHER -> {}

\* the endpoint argument of the calls of _request that are followed
EndpointArg == "/ISAPI/System/status"

\* str(e) of the exception raised for failure f, as interpolated at
\* client.py:94 and asyncclient.py:99: the message the transport library
\* gives the failure.  The library builds it from the failure and the URL
\* (base_url and endpoint); the digest credentials travel in a header and
\* are no part of it.
ExcText(f) ==
  CASE f = "connect_timeout" -> "timed out while connecting"
    [] f = "read_timeout" -> "timed out while reading"
    [] f = "refused" -> "connection refused"
    [] f = "reset" -> "connection reset by peer"
    [] f = "redirects" -> "exceeded the redirect limit"
    [] OTHER -> "error"

\* the message also interpolates the username and the password
LogRecWithCredentials(level, event, detail) ==
  [level |-> level, event |-> event, detail |-> detail,
   text |-> <<EndpointArg, args.username, args.password>>]

\* a record handed to logger.info or logger.warning; text holds the values
\* the f-string interpolates: the endpoint, and str(e) in the generic except
\* clause: client.py:79,85,88,91,94, asyncclient.py:84,90,93,96,99
LogRec(level, event, detail) ==
  [level |-> level, event |-> event, detail |-> detail,
   text |-> IF detail = "none" THEN <<EndpointArg>> ELSE <<EndpointArg, ExcText(detail)>>]

\* except Timeout / ConnectionError / RequestException: client.py:87-95
SyncHandler(f) ==
  LET cls == SyncIsA(f)
  IN IF "Timeout" \in cls THEN <<LogRec("WARNING", "timeout", "none")>>
     ELSE IF "ConnectionError" \in cls THEN <<LogRec("WARNING", "connection", "none")>>
     ELSE IF "RequestException" \in cls THEN <<LogRec("INFO", "request_error", f)>>
     ELSE <<>>

\* except TimeoutException / ConnectError / RequestError: asyncclient.py:92-100
AsyncHandler(f) ==
  LET cls == AsyncIsA(f)
  IN IF "TimeoutException" \in cls THEN <<LogRec("WARNING", "timeout", "none")>>
     ELSE IF "ConnectError" \in cls THEN <<LogRec("WARNING", "connection", "none")>>
     ELSE IF "RequestError" \in cls THEN <<LogRec("INFO", "request_error", f)>>
     ELSE <<>>

Handler(variant, f) == IF variant = "sync" THEN SyncHandler(f) ELSE AsyncHandler(f)

(***************************************************************************)
(* One call of _request.  x1, x2 describe its physical exchanges: the      *)
(* connection resource the exchange went over, the number of the exchange  *)
(* on that resource, and the auth object bound to the resource when the    *)
(* exchange was sent.  A response is identified by its exchange.           *)
(***************************************************************************)
NoExchange == [res |-> 0, seq |-> 0, auth |-> NoAuth]
NoResponse == [status |-> 0, res |-> 0, seq |-> 0]
NoResult == [kind |-> "none", response |-> NoResponse, exc |-> "none"]

Response(o, x) == [status |-> o.status, res |-> x.res, seq |-> x.seq]

NewCall(op, afterClose) ==
  [pc |-> "start", op |-> op, exchanges |-> 0, rebinds |-> 0, released |-> 0,
   first |-> NoOutcome, second |-> NoOutcome,
   x1 |-> NoExchange, x2 |-> NoExchange,
   result |-> NoResult, logs |-> <<>>, afterClose |-> afterClose]

IdleCall == [NewCall("none", FALSE) EXCEPT !.pc = "idle"]

\* every 4xx status triggers the refresh
NeedsReauthOnAnyClientError(o) == o.kind = "response" /\ o.status >= 400 /\ o.status < 500

\* if response.status_code == 401: client.py:78, asyncclient.py:83
NeedsReauth(o) == o.kind = "response" /\ o.status = 401

\* the retry's response is not assigned to response
FinalResponseFirst(r1, r2, retried) == r1

\* the variable response, assigned at client.py:76 and again at client.py:83
\* (asyncclient.py:81,88), returned at client.py:86 (asyncclient.py:91)
FinalResponse(r1, r2, retried) == IF retried THEN r2 ELSE r1

\* raise_for_status() called on every response
RaisesOnErrorStatus(o) == o.kind = "failure" \/ o.status >= 400
\* a timeout is swallowed instead of raised
RaisesUnlessTimeout(o) == o.kind = "failure" /\ o.fail \notin {"connect_timeout", "read_timeout"}

\* an exchange raises exactly when the transport failed: the try body of
\* client.py:75-86 (asyncclient.py:80-91) has no raise of its own
Raises(o) == o.kind = "failure"

\* the except clauses, each ending in raise e: client.py:87-95, asyncclient.py:92-100
Raised(variant, call, o) ==
  [call EXCEPT !.pc = "done",
               !.logs = call.logs \o Handler(variant, o.fail),
               !.result = [kind |-> "raised", response |-> NoResponse, exc |-> o.fail]]

\* return response: client.py:86, asyncclient.py:91
Returned(call, r) ==
  [call EXCEPT !.pc = "done",
               !.result = [kind |-> "returned", response |-> r, exc |-> "none"]]

(***************************************************************************)
(* Client._request (client.py:74-95), in the steps the blocking call runs  *)
(* through.  sw = [c |-> the Client, n |-> auth objects built so far].     *)
(* The session is connection resource 1.  requests.Session.request does    *)
(* not look at whether close() was called before: close() empties the      *)
(* adapters' pools, and the next request opens a connection again.         *)
(***************************************************************************)
\* response = self.session.request(method, url, kwargs): client.py:76
SyncFirst(sw, call) ==
  LET c1 == [sw.c EXCEPT !.session.sent = @ + 1]
  IN [w |-> [sw EXCEPT !.c = c1],
      call |-> [call EXCEPT !.pc = "await1",
                            !.exchanges = @ + 1,
                            !.x1 = [res |-> 1, seq |-> c1.session.sent,
                                    auth |-> c1.session.auth]]]

\* client.py:77-83 and 86-95, once the first exchange ended in o
SyncAfterFirst(sw, call, o) ==
  LET c0 == [call EXCEPT !.first = o]
  IN IF Raises(o) THEN [w |-> sw, call |-> Raised("sync", c0, o)]
     ELSE IF NeedsReauth(o)
     THEN LET fresh == NewAuth(sw.n, sw.c.username, sw.c.password)
              c1 == [sw.c EXCEPT !.session.auth = fresh, !.session.sent = @ + 1]
          IN [w |-> [c |-> c1, n |-> sw.n + 1],
              call |-> [c0 EXCEPT !.pc = "await2",
                                  !.logs = Append(@, LogRec("INFO", "got_401", "none")),
                                  !.rebinds = @ + 1,
                                  !.exchanges = @ + 1,
                                  !.x2 = [res |-> 1, seq |-> c1.session.sent,
                                          auth |-> c1.session.auth]]]
     ELSE [w |-> sw,
           call |-> Returned(c0, FinalResponse(Response(o, c0.x1), NoResponse, FALSE))]

\* client.py:84-95, once the retry exchange ended in o
SyncAfterSecond(sw, call, o) ==
  LET c0 == [call EXCEPT !.second = o]
      c1 == IF NeedsReauth(o)
            THEN [c0 EXCEPT !.logs = Append(@, LogRec("WARNING", "still_401", "none"))]
            ELSE c0
  IN IF Raises(o) THEN [w |-> sw, call |-> Raised("sync", c0, o)]
     ELSE [w |-> sw,
           call |-> Returned(c1, FinalResponse(Response(c0.first, c0.x1),
                                               Response(o, c0.x2), TRUE))]

\* Client._request as a whole: client.py:54-95
SyncRun(sw, call, o1, o2) ==
  LET s1 == SyncFirst(sw, call)
      s2 == SyncAfterFirst(s1.w, s1.call, o1)
  IN IF s2.call.pc = "done" THEN s2 ELSE SyncAfterSecond(s2.w, s2.call, o2)

\* Client.close: client.py:97-102
SyncCloseRun(c) == [c EXCEPT !.session.closeCalls = @ + 1]

(***************************************************************************)
(* AsyncClient.  w = [c |-> the AsyncClient, h |-> the httpx.AsyncClient   *)
(* objects created so far (a connection resource is its index in h),       *)
(* n |-> auth objects built so far].                                       *)
(***************************************************************************)
\* an httpx.AsyncClient as built at asyncclient.py:58.  acloseCalls counts
\* the calls of aclose(), releases the times its transport was closed:
\* aclose() closes the transport only of a client that is not closed yet.
NewResource(auth, kwargs) ==
  [auth |-> auth, kwargs |-> kwargs, closed |-> FALSE, acloseCalls |-> 0,
   releases |-> 0, sent |-> 0]

\* the property builds a DigestAuth of its own for the httpx client it
\* creates and stores it in self.auth
AsyncClientPropRebuildsAuth(w) ==
  IF w.c._client = 0
  THEN LET fresh == NewAuth(w.n, w.c.username, w.c.password)
           h1 == Append(w.h, NewResource(fresh, w.c.client_kwargs))
       IN [w EXCEPT !.h = h1, !.c._client = Len(h1), !.c.auth = fresh, !.n = @ + 1]
  ELSE w

\* the property builds an httpx client on every read
AsyncClientPropAlwaysNew(w) ==
  LET h1 == Append(w.h, NewResource(w.c.auth, w.c.client_kwargs))
  IN [w EXCEPT !.h = h1, !.c._client = Len(h1)]

\* the property client: asyncclient.py:54-59
AsyncClientProp(w) ==
  IF w.c._client = 0
  THEN LET h1 == Append(w.h, NewResource(w.c.auth, w.c.client_kwargs))
       IN [w EXCEPT !.h = h1, !.c._client = Len(h1)]
  ELSE w

\* self.client.request(...) up to its first suspension, as exchange 1 or 2
\* of the call: asyncclient.py:81,88.  httpx refuses to send on a client
\* whose aclose() has begun (RuntimeError), and reads the client's auth
\* before it suspends.
AsyncSend(w, call, second) ==
  LET w1 == AsyncClientProp(w)
      r == w1.c._client
  IN IF w1.h[r].closed
     THEN [w |-> w1, call |-> Raised("async", call, Fail("RuntimeError"))]
     ELSE LET h1 == [w1.h EXCEPT ![r].sent = @ + 1]
              x == [res |-> r, seq |-> h1[r].sent, auth |-> h1[r].auth]
          IN [w |-> [w1 EXCEPT !.h = h1],
              call |-> IF second
                       THEN [call EXCEPT !.pc = "await2", !.exchanges = @ + 1, !.x2 = x]
                       ELSE [call EXCEPT !.pc = "await1", !.exchanges = @ + 1, !.x1 = x]]

\* asyncclient.py:79-81, up to the suspension of the first exchange
AsyncFirst(w, call) == AsyncSend(w, call, FALSE)

\* asyncclient.py:82-88 and 91-100, once the first exchange ended in o
AsyncAfterFirst(w, call, o) ==
  LET c0 == [call EXCEPT !.first = o]
  IN IF Raises(o) THEN [w |-> w, call |-> Raised("async", c0, o)]
     ELSE IF NeedsReauth(o)
     THEN LET w1 == AsyncClientProp(w)
              fresh == NewAuth(w1.n, w1.c.username, w1.c.password)
              w2 == [w1 EXCEPT !.h[w1.c._client].auth = fresh, !.n = @ + 1]
              c1 == [c0 EXCEPT !.logs = Append(@, LogRec("INFO", "got_401", "none")),
                               !.rebinds = @ + 1]
          IN AsyncSend(w2, c1, TRUE)
     ELSE [w |-> w,
           call |-> Returned(c0, FinalResponse(Response(o, c0.x1), NoResponse, FALSE))]

\* a second 401 is answered with another refresh and a third exchange
AsyncAfterSecondRetriesAgain(w, call, o) ==
  LET c0 == [call EXCEPT !.second = o]
  IN IF Raises(o) THEN [w |-> w, call |-> Raised("async", c0, o)]
     ELSE IF NeedsReauth(o) /\ call.exchanges = 2
     THEN LET fresh == NewAuth(w.n, w.c.username, w.c.password)
              w2 == [w EXCEPT !.h[w.c._client].auth = fresh, !.n = @ + 1]
          IN AsyncSend(w2, [call EXCEPT !.rebinds = @ + 1], TRUE)
     ELSE [w |-> w,
           call |-> Returned(c0, FinalResponse(Response(c0.first, c0.x1),
                                               Response(o, c0.x2), TRUE))]

\* asyncclient.py:89-100, once the retry exchange ended in o
AsyncAfterSecond(w, call, o) ==
  LET c0 == [call EXCEPT !.second = o]
      c1 == IF NeedsReauth(o)
            THEN [c0 EXCEPT !.logs = Append(@, LogRec("WARNING", "still_401", "none"))]
            ELSE c0
  IN IF Raises(o) THEN [w |-> w, call |-> Raised("async", c0, o)]
     ELSE [w |-> w,
           call |-> Returned(c1, FinalResponse(Response(c0.first, c0.x1),
                                               Response(o, c0.x2), TRUE))]

\* AsyncClient._request run without another task in between: asyncclient.py:61-100
AsyncRun(w, call, o1, o2) ==
  LET s1 == AsyncFirst(w, call)
      s2 == IF s1.call.pc = "done" THEN s1 ELSE AsyncAfterFirst(s1.w, s1.call, o1)
  IN IF s2.call.pc = "done" THEN s2 ELSE AsyncAfterSecond(s2.w, s2.call, o2)

\* AsyncClient.close up to the suspension in aclose(): asyncclient.py:107-108
AsyncCloseBegin(w, call) ==
  LET r == w.c._client
  IN IF r # 0
     THEN [w |-> [w EXCEPT !.h[r].closed = TRUE, !.h[r].acloseCalls = @ + 1,
                           !.h[r].releases = IF w.h[r].closed THEN @ ELSE @ + 1],
           call |-> [call EXCEPT !.pc = "closing", !.released = r]]
     ELSE [w |-> w, call |-> [call EXCEPT !.pc = "done"]]

\* AsyncClient.close after aclose() returned: asyncclient.py:109
AsyncCloseEnd(w, call) ==
  [w |-> [w EXCEPT !.c._client = 0], call |-> [call EXCEPT !.pc = "done"]]

\* AsyncClient.close run without another task in between: asyncclient.py:102-109
AsyncCloseRun(w, call) ==
  LET s1 == AsyncCloseBegin(w, call)
  IN IF s1.call.pc = "done" THEN s1 ELSE AsyncCloseEnd(s1.w, s1.call)

(***************************************************************************)
(* Inputs.                                                                 *)
(***************************************************************************)
Tasks == 1..MaxTasks

Hosts == {<<"1","0",".","0",".","0",".","1">>, <<"c","a","m">>}
Protocols == {<<"h","t","t","p">>, <<"h","t","t","p","s">>, <<"H","T","T","P","S">>,
              <<"H","t","t","p","s">>, <<"H","T","T","P">>, <<"f","t","p">>}
Ports == {<<>>, <<0>>, <<80>>, <<8443>>}
Creds == {[username |-> "admin", password |-> "12345"],
          [username |-> "viewer", password |-> ""]}
OptionKeys == {"headers", "timeout", "verify"}
OptionValues == {"v1", "v2"}
Kwargs == UNION {[K -> OptionValues] : K \in SUBSET OptionKeys}

MkArgs(ip, cr, port, protocol, kwargs) ==
  [ip |-> ip, username |-> cr.username, password |-> cr.password,
   port |-> port, protocol |-> protocol, kwargs |-> kwargs]

\* every combination of constructor arguments
ArgsWide ==
  {MkArgs(ip, [username |-> "admin", password |-> "12345"], port, protocol, kw) :
     ip \in Hosts, port \in Ports, protocol \in Protocols, kw \in Kwargs}

\* the constructor arguments of the clients whose requests are followed
ArgsSmall ==
  {MkArgs(<<"1","0",".","0",".","0",".","1">>, cr, <<>>, <<"H","T","T","P","S">>,
          [k \in {"timeout"} |-> "v1"]) : cr \in Creds}

\* the client and the exchange outcomes followed through close() and the
\* with block
LifeArgs ==
  MkArgs(<<"1","0",".","0",".","0",".","1">>, [username |-> "admin", password |-> "12345"],
         <<>>, <<"H","T","T","P","S">>, [k \in {"timeout"} |-> "v1"])
LifeOutcomes == {Resp(200), Resp(401), Fail("read_timeout")}

BodyExcs == {"none", "ValueError", "read_timeout"}

NoScope == [pc |-> "out", exc |-> "none", observed |-> "none",
            atExit |-> 0, released |-> 0, closesBefore |-> 0]

\* what has happened so far: the operations started, the close() calls and
\* scope exits that ended, the request calls whose first exchange ended in
\* 401, and whether a request call started since a close() last ended
NoOps == [started |-> 0, closed |-> 0, unauth |-> 0, sinceClose |-> FALSE]

\* a call of _request was entered: client.py:54, asyncclient.py:61
RequestStarted(o) == [o EXCEPT !.started = @ + 1, !.sinceClose = TRUE]
\* the first exchange of a call ended in out: client.py:76, asyncclient.py:81
FirstAnswered(o, out) == [o EXCEPT !.unauth = IF out = Resp(401) THEN @ + 1 ELSE @]
\* a call of close() was entered: client.py:97, asyncclient.py:102
CloseStarted(o) == [o EXCEPT !.started = @ + 1]
\* close() or the exit handler returned: client.py:102,112, asyncclient.py:109,119
CloseEnded(o) == [o EXCEPT !.closed = @ + 1, !.sinceClose = FALSE]

W == [c |-> async, h |-> httpx, n |-> nAuth.async]
SW == [c |-> sync, n |-> nAuth.sync]

(***************************************************************************)
(* Initial states: the clients as their constructors leave them.           *)
(***************************************************************************)
InitWith(m, a) ==
  /\ mode = m
  /\ args = a
  /\ sync = ClientInit(a)
  /\ async = AsyncClientInit(a)
  /\ httpx = <<>>
  /\ nAuth = [sync |-> 1, async |-> 1]
  /\ scall = IdleCall
  /\ acall = IdleCall
  /\ tasks = [t \in Tasks |-> IdleCall]
  /\ scope = NoScope
  /\ ops = NoOps

Init == \E m \in {"sync", "async"} : \E a \in ArgsSmall : InitWith(m, a)

InitLife == \E m \in {"sync", "async"} : InitWith(m, LifeArgs)

InitPair == \E a \in ArgsSmall : InitWith("pair", a)

InitCtor ==
  /\ mode = "ctor"
  /\ args \in ArgsWide
  /\ sync = NoClient
  /\ async = NoClient
  /\ httpx = <<>>
  /\ nAuth = [sync |-> 0, async |-> 0]
  /\ scall = IdleCall
  /\ acall = IdleCall
  /\ tasks = [t \in Tasks |-> IdleCall]
  /\ scope = NoScope
  /\ ops = NoOps

(***************************************************************************)
(* Construction as a step, and the first read of the property client.      *)
(***************************************************************************)
Construct ==
  /\ mode = "ctor"
  /\ ~sync.constructed
  /\ sync' = ClientInit(args)
  /\ async' = AsyncClientInit(args)
  /\ nAuth' = [sync |-> 1, async |-> 1]
  /\ UNCHANGED <<mode, args, httpx, scall, acall, tasks, scope, ops>>

FirstUse ==
  /\ mode = "ctor"
  /\ async.constructed
  /\ async._client = 0
  /\ LET w1 == AsyncClientProp(W)
     IN /\ async' = w1.c
        /\ httpx' = w1.h
  /\ UNCHANGED <<mode, args, sync, nAuth, scall, acall, tasks, scope, ops>>

(***************************************************************************)
(* The blocking client: a call runs to completion on the caller's thread.  *)
(***************************************************************************)
SyncRequest(O) ==
  /\ mode = "sync"
  /\ ops.started < MaxOps
  /\ \E o1 \in O, o2 \in O :
       LET s == SyncRun(SW, NewCall("request", ops.closed > 0), o1, o2)
       IN /\ sync' = s.w.c
          /\ nAuth' = [nAuth EXCEPT !.sync = s.w.n]
          /\ scall' = s.call
          /\ ops' = FirstAnswered(RequestStarted(ops), o1)
  /\ UNCHANGED <<mode, args, async, httpx, acall, tasks, scope>>

SyncClose ==
  /\ mode = "sync"
  /\ ops.started < MaxOps
  /\ sync' = SyncCloseRun(sync)
  /\ ops' = CloseEnded(CloseStarted(ops))
  /\ UNCHANGED <<mode, args, async, httpx, nAuth, scall, acall, tasks, scope>>

\* Client.__enter__ / AsyncClient.__aenter__: client.py:104-106, asyncclient.py:111-113
WithEnter ==
  /\ mode \in {"sync", "async"}
  /\ scope.pc = "out"
  /\ scope' = [scope EXCEPT !.pc = "in"]
  /\ UNCHANGED <<mode, args, sync, async, httpx, nAuth, scall, acall, tasks, ops>>

\* return False: client.py:112
SyncExitReturn == FALSE

\* the exit handler returns True
AsyncExitReturnTrue == TRUE

\* return False: asyncclient.py:119
AsyncExitReturn == FALSE

\* what the caller of the with block sees once the exit handler returned
Observed(suppress, e) == IF suppress THEN "none" ELSE e

\* Client.__exit__: client.py:108-112.  e is the exception the block body
\* raised, "none" when it ended normally.
SyncWithExit ==
  /\ mode = "sync"
  /\ scope.pc = "in"
  /\ \E e \in BodyExcs :
       scope' = [scope EXCEPT !.pc = "exited", !.exc = e,
                              !.observed = Observed(SyncExitReturn, e),
                              !.closesBefore = sync.session.closeCalls]
  /\ sync' = [sync EXCEPT !.session.closeCalls = @ + 1]
  /\ ops' = CloseEnded(ops)
  /\ UNCHANGED <<mode, args, async, httpx, nAuth, scall, acall, tasks>>

(***************************************************************************)
(* The async client: a task runs from one await to the next, and other     *)
(* tasks run while it is suspended.                                        *)
(***************************************************************************)
SetW(w) ==
  /\ async' = w.c
  /\ httpx' = w.h
  /\ nAuth' = [nAuth EXCEPT !.async = w.n]

\* a task that is still in flight keeps its call; a call that ended becomes
\* the last completed call, and its task is free again
Settle(t, call) ==
  IF call.pc = "done"
  THEN /\ tasks' = [tasks EXCEPT ![t] = IdleCall]
       /\ acall' = call
  ELSE /\ tasks' = [tasks EXCEPT ![t] = call]
       /\ UNCHANGED acall

\* idle tasks are alike: the one with the least number starts
Free(t) == tasks[t].pc = "idle" /\ \A u \in Tasks : u < t => tasks[u].pc # "idle"

AsyncStart(t) ==
  /\ mode = "async"
  /\ Free(t)
  /\ ops.started < MaxOps
  /\ LET s == AsyncFirst(W, NewCall("request", ops.closed > 0))
     IN /\ SetW(s.w)
        /\ Settle(t, s.call)
  /\ ops' = RequestStarted(ops)
  /\ UNCHANGED <<mode, args, sync, scall, scope>>

AsyncFirstDone(t, O) ==
  /\ mode = "async"
  /\ tasks[t].pc = "await1"
  /\ \E o \in O :
       LET s == AsyncAfterFirst(W, tasks[t], o)
       IN /\ SetW(s.w)
          /\ Settle(t, s.call)
          /\ ops' = FirstAnswered(ops, o)
  /\ UNCHANGED <<mode, args, sync, scall, scope>>

AsyncSecondDone(t, O) ==
  /\ mode = "async"
  /\ tasks[t].pc = "await2"
  /\ \E o \in O :
       LET s == AsyncAfterSecond(W, tasks[t], o)
       IN /\ SetW(s.w)
          /\ Settle(t, s.call)
  /\ UNCHANGED <<mode, args, sync, scall, scope, ops>>

AsyncCloseStart(t) ==
  /\ mode = "async"
  /\ Free(t)
  /\ ops.started < MaxOps
  /\ LET s == AsyncCloseBegin(W, NewCall("close", ops.closed > 0))
     IN /\ SetW(s.w)
        /\ Settle(t, s.call)
        /\ ops' = IF s.call.pc = "done" THEN CloseEnded(CloseStarted(ops))
                   ELSE CloseStarted(ops)
  /\ UNCHANGED <<mode, args, sync, scall, scope>>

AsyncCloseFinish(t) ==
  /\ mode = "async"
  /\ tasks[t].pc = "closing"
  /\ LET s == AsyncCloseEnd(W, tasks[t])
     IN /\ SetW(s.w)
        /\ Settle(t, s.call)
  /\ ops' = CloseEnded(ops)
  /\ UNCHANGED <<mode, args, sync, scall, scope>>

\* AsyncClient.__aexit__ up to the suspension inside close(): asyncclient.py:115-117
AsyncWithExitBegin ==
  /\ mode = "async"
  /\ scope.pc = "in"
  /\ \E e \in BodyExcs :
       LET s == AsyncCloseBegin(W, NewCall("close", ops.closed > 0))
           done == s.call.pc = "done"
       IN /\ SetW(s.w)
          /\ scope' = [scope EXCEPT !.pc = IF done THEN "exited" ELSE "exiting",
                                    !.exc = e,
                                    !.atExit = async._client,
                                    !.released = s.call.released,
                                    !.observed = IF done THEN Observed(AsyncExitReturn, e)
                                                 ELSE "none"]
          /\ ops' = IF done THEN CloseEnded(ops) ELSE ops
  /\ UNCHANGED <<mode, args, sync, scall, acall, tasks>>

\* AsyncClient.__aexit__ after close() resumed: asyncclient.py:117-119
AsyncWithExitEnd ==
  /\ mode = "async"
  /\ scope.pc = "exiting"
  /\ LET s == AsyncCloseEnd(W, IdleCall)
     IN SetW(s.w)
  /\ scope' = [scope EXCEPT !.pc = "exited",
                            !.observed = Observed(AsyncExitReturn, scope.exc)]
  /\ ops' = CloseEnded(ops)
  /\ UNCHANGED <<mode, args, sync, scall, acall, tasks>>

(***************************************************************************)
(* The two variants side by side: the same operation, with the same        *)
(* outcomes of its exchanges, is applied to both, each call running to     *)
(* completion before the next one starts.                                  *)
(***************************************************************************)
PairRequest ==
  /\ mode = "pair"
  /\ ops.started < MaxOps
  /\ \E o1 \in Outcomes, o2 \in Outcomes :
       LET s == SyncRun(SW, NewCall("request", ops.closed > 0), o1, o2)
           a == AsyncRun(W, NewCall("request", ops.closed > 0), o1, o2)
       IN /\ sync' = s.w.c
          /\ scall' = s.call
          /\ async' = a.w.c
          /\ httpx' = a.w.h
          /\ acall' = a.call
          /\ nAuth' = [sync |-> s.w.n, async |-> a.w.n]
          /\ ops' = FirstAnswered(RequestStarted(ops), o1)
  /\ UNCHANGED <<mode, args, tasks, scope>>

PairClose ==
  /\ mode = "pair"
  /\ ops.started < MaxOps
  /\ sync' = SyncCloseRun(sync)
  /\ LET a == AsyncCloseRun(W, NewCall("close", ops.closed > 0))
     IN /\ async' = a.w.c
        /\ httpx' = a.w.h
        /\ acall' = a.call
  /\ scall' = [NewCall("close", ops.closed > 0) EXCEPT !.pc = "done"]
  /\ ops' = CloseEnded(CloseStarted(ops))
  /\ UNCHANGED <<mode, args, nAuth, tasks, scope>>

(***************************************************************************)
(* Specifications.                                                         *)
(***************************************************************************)
\* the request protocol on an open client
Next ==
  \/ SyncRequest(Outcomes)
  \/ \E t \in Tasks : AsyncStart(t)
  \/ \E t \in Tasks : AsyncFirstDone(t, Outcomes)
  \/ \E t \in Tasks : AsyncSecondDone(t, Outcomes)

Spec == Init /\ [][Next]_vars

\* every exchange that was sent ends, in a response or in a transport
\* failure, and the event loop resumes the task that awaits it:
\* asyncclient.py:81,88
ExchangesEnd ==
  \A t \in Tasks : /\ WF_vars(AsyncFirstDone(t, LifeOutcomes))
                    /\ WF_vars(AsyncSecondDone(t, LifeOutcomes))

NextFair ==
  \/ SyncRequest(LifeOutcomes)
  \/ \E t \in Tasks : AsyncStart(t)
  \/ \E t \in Tasks : AsyncFirstDone(t, LifeOutcomes)
  \/ \E t \in Tasks : AsyncSecondDone(t, LifeOutcomes)

\* the request protocol on an open client whose exchanges all end, each in
\* 200, in 401 or in a timeout
SpecFair == InitLife /\ [][NextFair]_vars /\ ExchangesEnd

\* requests, close() and the with block
NextLife ==
  \/ SyncRequest(LifeOutcomes)
  \/ SyncClose
  \/ WithEnter
  \/ SyncWithExit
  \/ \E t \in Tasks : AsyncStart(t)
  \/ \E t \in Tasks : AsyncFirstDone(t, LifeOutcomes)
  \/ \E t \in Tasks : AsyncSecondDone(t, LifeOutcomes)
  \/ \E t \in Tasks : AsyncCloseStart(t)
  \/ \E t \in Tasks : AsyncCloseFinish(t)
  \/ AsyncWithExitBegin
  \/ AsyncWithExitEnd

SpecLife == InitLife /\ [][NextLife]_vars

NextPair == PairRequest \/ PairClose

SpecPair == InitPair /\ [][NextPair]_vars

NextCtor == Construct \/ FirstUse

SpecCtor == InitCtor /\ [][NextCtor]_vars

(***************************************************************************)
(* Properties.                                                             *)
(***************************************************************************)
\* the request calls that have ended and are still on record: the last one
\* of the blocking client and the last one of the async client
Completed == {c \in {scall, acall} : c.pc = "done" /\ c.op = "request"}

\* the request calls of the async client that are suspended in an exchange
InFlight == {tasks[t] : t \in {u \in Tasks : tasks[u].op = "request"}}

\* the response object the transport handed back for exchange x with outcome o
Delivered(o, x) == [status |-> o.status, res |-> x.res, seq |-> x.seq]

\* C1: a request call whose first exchange ends in a response with a status
\* other than 401 (200, 404, 500 alike) issues exactly one physical
\* exchange, does not rebind the auth object, and returns that very
\* response; after such a call of the blocking client the session still
\* carries the auth object the exchange was sent with.
C1_NonUnauthorizedSingleExchange ==
  /\ \A c \in Completed :
       (c.first.kind = "response" /\ c.first.status # 401) =>
         /\ c.exchanges = 1
         /\ c.rebinds = 0
         /\ c.x2 = NoExchange
         /\ c.logs = <<>>
         /\ c.result.kind = "returned"
         /\ c.result.response = Delivered(c.first, c.x1)
  /\ (mode = "sync" /\ scall.pc = "done" /\ scall.first.kind = "response"
        /\ scall.first.status # 401) => sync.session.auth = scall.x1.auth

\* an async call got a 404 and returned it after one exchange, while another
\* call on the same client has rebound the auth object and is retrying
C1_Witness ==
  /\ mode = "async"
  /\ acall.pc = "done"
  /\ acall.first = Resp(404)
  /\ acall.exchanges = 1
  /\ acall.result.response.status = 404
  /\ \E t \in Tasks : tasks[t].pc = "await2"

\* C2: a request call whose first exchange returns 401 issues exactly two
\* physical exchanges, the second after one rebind of the auth object; when
\* the second exchange ends in a response the call returns that response
\* whatever its status (a second 401 included), and no call ever issues a
\* third exchange.
C2_UnauthorizedExactlyOneRetry ==
  /\ \A c \in Completed :
       c.first = Resp(401) =>
         /\ c.exchanges = 2
         /\ c.rebinds = 1
         /\ c.second # NoOutcome
         /\ c.x2.seq > 0
         /\ c.second.kind = "response" =>
              /\ c.result.kind = "returned"
              /\ c.result.response = Delivered(c.second, c.x2)
  /\ \A c \in Completed \cup InFlight :
       /\ c.exchanges <= 2
       /\ c.exchanges = 2 => c.first = Resp(401)

\* an async call saw 401, retried, saw 401 again and returned the second 401
\* with a warning logged
C2_Witness ==
  /\ mode = "async"
  /\ acall.pc = "done"
  /\ acall.first = Resp(401)
  /\ acall.second = Resp(401)
  /\ acall.exchanges = 2
  /\ acall.result.kind = "returned"
  /\ acall.result.response.status = 401
  /\ acall.result.response.seq = acall.x2.seq
  /\ Len(acall.logs) = 2
  /\ acall.logs[2].level = "WARNING"

\* C3: in every request call that retries, the auth object the retry
\* exchange is sent with is another object than the one the call's first
\* exchange was sent with, and it was built from the username and password
\* given at construction; in the async client this holds for every
\* interleaving of the concurrent request calls.
C3_RetryUsesFreshAuth ==
  \A c \in Completed \cup InFlight :
    c.x2 # NoExchange =>
      /\ c.x2.auth.id # c.x1.auth.id
      /\ c.x2.auth.username = args.username
      /\ c.x2.auth.password = args.password

\* two async calls are retrying at the same time, each with an auth object
\* of its own, for a client built with the second pair of credentials
C3_Witness ==
  /\ mode = "async"
  /\ args.username = "viewer"
  /\ \E t, u \in Tasks :
       /\ t # u
       /\ tasks[t].pc = "await2"
       /\ tasks[u].pc = "await2"
       /\ tasks[t].x2.auth.id # tasks[u].x2.auth.id
       /\ tasks[t].x1.auth.id = tasks[u].x1.auth.id

\* C4: when the first exchange of a request call fails at transport level
\* (timeout, connection failure, other request error) the call raises that
\* failure, issues no second exchange and does not rebind the auth object.
C4_TransportFailureNoRetry ==
  /\ \A c \in Completed :
       c.first.kind = "failure" =>
         /\ c.result.kind = "raised"
         /\ c.result.exc = c.first.fail
         /\ c.exchanges = 1
         /\ c.rebinds = 0
         /\ c.x2 = NoExchange
         /\ c.second = NoOutcome
  /\ (mode = "sync" /\ scall.pc = "done" /\ scall.first.kind = "failure")
       => sync.session.auth = scall.x1.auth

\* a blocking call whose first exchange timed out raised the timeout after
\* one exchange
C4_Witness ==
  /\ mode = "sync"
  /\ scall.pc = "done"
  /\ scall.first = Fail("read_timeout")
  /\ scall.result.kind = "raised"
  /\ scall.result.exc = "read_timeout"
  /\ scall.exchanges = 1

\* C5: a request call on an open client never raises because of an HTTP
\* status: whenever all its exchanges ended in responses (401 then 401 and
\* any 4xx/5xx included) it returns a response, and when it raises, one of
\* its exchanges failed at transport level and that failure is what it
\* raises.
C5_RaisesOnlyOnTransportFailure ==
  \A c \in Completed :
    /\ c.result.kind \in {"returned", "raised"}
    /\ (c.first.kind = "response" /\ c.second.kind # "failure") =>
         c.result.kind = "returned"
    /\ c.result.kind = "raised" =>
         \/ c.first.kind = "failure" /\ c.result.exc = c.first.fail
         \/ c.second.kind = "failure" /\ c.result.exc = c.second.fail

\* an async call saw 401, retried, got a 500 and returned it
C5_Witness ==
  /\ mode = "async"
  /\ acall.pc = "done"
  /\ acall.first = Resp(401)
  /\ acall.second = Resp(500)
  /\ acall.result.kind = "returned"
  /\ acall.result.response.status = 500

\* C6, as claimed: a request call started after close() has completed
\* attempts no physical exchange on the transport.
C6_NoExchangeAfterClose ==
  \A c \in Completed \cup InFlight : c.afterClose => c.exchanges = 0

\* C7: when the with block is left, normally or by an exception of its
\* body, the exit handler has called close on the session (blocking) or
\* released the connection resource the client held (async), and what the
\* caller sees is the exception the body raised, never a suppressed one.
C7_ScopeExitClosesAndPropagates ==
  scope.pc = "exited" =>
    /\ scope.observed = scope.exc
    /\ mode = "sync" => sync.session.closeCalls > scope.closesBefore
    /\ mode = "async" =>
         /\ scope.released = scope.atExit
         /\ scope.released # 0 =>
              /\ httpx[scope.released].closed
              /\ httpx[scope.released].acloseCalls >= 1

\* the body of an async with block raised ValueError after a request had
\* created the connection resource; the resource is released and the caller
\* sees the ValueError
C7_Witness ==
  /\ mode = "async"
  /\ scope.pc = "exited"
  /\ scope.exc = "ValueError"
  /\ scope.observed = "ValueError"
  /\ scope.released # 0
  /\ httpx[scope.released].closed
  /\ async._client = 0

\* C8, as claimed: driven by the same sequence of request and close calls
\* with the same outcomes of the exchanges, the blocking and the async
\* client issue the same number of exchanges per call, rebind the auth
\* object as often, and give the caller the same outcome: the same status
\* returned, or the same failure raised and logged as the same class at the
\* same level.
C8_VariantsEquivalent ==
  (mode = "pair" /\ scall.pc = "done" /\ acall.pc = "done") =>
    /\ scall.op = acall.op
    /\ scall.exchanges = acall.exchanges
    /\ scall.rebinds = acall.rebinds
    /\ scall.result.kind = acall.result.kind
    /\ scall.result.exc = acall.result.exc
    /\ scall.result.response.status = acall.result.response.status
    /\ scall.logs = acall.logs

IsDigit(ch) == \E i \in 1..10 : Digits[i] = ch
DigitValue(ch) == (CHOOSE i \in 1..10 : Digits[i] = ch) - 1

RECURSIVE ParseDecimal(_)
\* int() of a string of decimal digits
ParseDecimal(d) ==
  IF Len(d) = 0 THEN 0
  ELSE 10 * ParseDecimal(SubSeq(d, 1, Len(d) - 1)) + DigitValue(d[Len(d)])

\* b is a, with an upper-case letter replaced by its lower-case letter
IsLowerOf(b, a) ==
  \/ b = a /\ ~\E i \in 1..26 : UpperChars[i] = a
  \/ \E i \in 1..26 : UpperChars[i] = a /\ LowerChars[i] = b

TenDotOne == <<"1","0",".","0",".","0",".","1">>

\* C9, for one constructed client c
PortAndBaseUrl(c) ==
  LET head == Len(c.protocol) + 3 + Len(args.ip) + 1
      tail == SubSeq(c.base_url, head + 1, Len(c.base_url))
  IN /\ Len(c.protocol) = Len(args.protocol)
     /\ \A i \in 1..Len(c.protocol) : IsLowerOf(c.protocol[i], args.protocol[i])
     /\ args.port # <<>> => c.port = args.port[1]
     /\ args.port = <<>> =>
          /\ c.protocol = <<"h","t","t","p","s">> => c.port = 443
          /\ c.protocol # <<"h","t","t","p","s">> => c.port = 80
     /\ Len(c.base_url) > head
     /\ SubSeq(c.base_url, 1, head) = c.protocol \o <<":","/","/">> \o args.ip \o <<":">>
     /\ \A i \in 1..Len(tail) : IsDigit(tail[i])
     /\ Len(tail) > 1 => tail[1] # "0"
     /\ ParseDecimal(tail) = c.port
     /\ (args.ip = TenDotOne /\ c.protocol = <<"h","t","t","p","s">> /\ args.port = <<>>) =>
          c.base_url = <<"h","t","t","p","s",":","/","/">> \o TenDotOne \o <<":","4","4","3">>
     /\ (args.ip = TenDotOne /\ c.protocol = <<"h","t","t","p","s">> /\ args.port = <<8443>>) =>
          c.base_url = <<"h","t","t","p","s",":","/","/">> \o TenDotOne
                         \o <<":","8","4","4","3">>

\* C9: after construction of either client the protocol is the given one in
\* lower case, the port is the given one or, when none is given, 443 for
\* https and 80 for http and for any other scheme, and the base URL is
\* scheme://host:port with the port in decimal; 10.0.0.1 with https gives
\* https://10.0.0.1:443, and https://10.0.0.1:8443 with port 8443.
C9_PortDefaultAndBaseUrl ==
  (mode = "ctor" /\ sync.constructed) => PortAndBaseUrl(sync) /\ PortAndBaseUrl(async)

\* both clients were built for 10.0.0.1 with protocol HTTPS and no port
C9_Witness ==
  /\ mode = "ctor"
  /\ sync.constructed
  /\ args.protocol = <<"H","T","T","P","S">>
  /\ args.port = <<>>
  /\ args.ip = TenDotOne
  /\ sync.port = 443
  /\ async.base_url = <<"h","t","t","p","s",":","/","/">> \o TenDotOne \o <<":","4","4","3">>

\* C10, as claimed: construction turns certificate verification off unless
\* the caller gives verify, and every option the caller gives reaches the
\* underlying transport with its value, in both clients.
C10_OptionsPassedVerbatim ==
  (mode = "ctor" /\ sync.constructed) =>
    /\ "verify" \notin DOMAIN args.kwargs =>
         /\ sync.session.conf["verify"] = "False"
         /\ async.client_kwargs["verify"] = "False"
    /\ \A k \in DOMAIN args.kwargs :
         /\ k \in DOMAIN sync.session.conf
         /\ sync.session.conf[k] = args.kwargs[k]
         /\ k \in DOMAIN async.client_kwargs
         /\ async.client_kwargs[k] = args.kwargs[k]
         /\ async._client # 0 => httpx[async._client].kwargs[k] = args.kwargs[k]

\* the classes of section 7 of the specification a transport failure belongs to
IsTimeoutFailure(f) == f \in {"connect_timeout", "read_timeout"}
IsConnectionFailure(f) == f \in {"connect_timeout", "refused", "reset"}

\* the log records of call c written by an except clause
FailureLogs(c) ==
  {i \in 1..Len(c.logs) : c.logs[i].event \in {"timeout", "connection", "request_error"}}

\* the exchange of call c that failed, if one did
FailedOutcome(c) ==
  IF c.first.kind = "failure" THEN c.first
  ELSE IF c.second.kind = "failure" THEN c.second
  ELSE NoOutcome

\* C11, as claimed: a transport failure of the first or of the retry exchange
\* is raised to the caller as that failure and leaves exactly one failure log
\* record: a warning for a timeout, else a warning for a connection or
\* network failure (refused, reset), else an informational record.
C11_FailureLoggedOnceByClass ==
  \A c \in Completed :
    LET o == FailedOutcome(c)
    IN o.kind = "failure" =>
         /\ c.result.kind = "raised"
         /\ c.result.exc = o.fail
         /\ Cardinality(FailureLogs(c)) = 1
         /\ \A i \in FailureLogs(c) :
              /\ i = Len(c.logs)
              /\ IsTimeoutFailure(o.fail) =>
                   c.logs[i].level = "WARNING" /\ c.logs[i].event = "timeout"
              /\ (~IsTimeoutFailure(o.fail) /\ IsConnectionFailure(o.fail)) =>
                   c.logs[i].level = "WARNING" /\ c.logs[i].event = "connection"
              /\ (~IsTimeoutFailure(o.fail) /\ ~IsConnectionFailure(o.fail)) =>
                   c.logs[i].level = "INFO" /\ c.logs[i].event = "request_error"

\* C12, as claimed: the refresh of the auth object never builds another
\* connection resource: the retry exchange of a call goes over the resource
\* its first exchange went over, also when close() or other request calls
\* run between the two exchanges of an async call.
C12_RetryOnSameResource ==
  \A c \in Completed \cup InFlight :
    c.x2 # NoExchange => c.x2.res = c.x1.res

\* the auth objects built by the refresh of asyncclient.py:86 so far
AsyncRebinds == nAuth.async - 1

\* C13: on an async client with request calls in flight at the same time, the
\* auth objects built by the refresh are as many as the request calls whose
\* first exchange ended in 401, a call has rebound once when its first
\* exchange ended in 401 and never otherwise, no call issues more than two
\* exchanges, and every exchange of every call goes over the one httpx client
\* of the AsyncClient.
C13_RebindPerUnauthorizedCall ==
  mode = "async" =>
    /\ AsyncRebinds = ops.unauth
    /\ Len(httpx) <= 1
    /\ \A c \in Completed \cup InFlight :
         /\ c.rebinds = (IF c.first = Resp(401) THEN 1 ELSE 0)
         /\ c.exchanges <= 2
         /\ c.x1.res = 1 /\ c.x1.res = async._client
         /\ c.x2 # NoExchange => c.x2.res = 1

\* the race: two calls sent their first exchange with the auth object of the
\* constructor, each got 401, each built and bound an auth object of its own,
\* and both are suspended in their retry: two refreshes for one stale session
C13_Witness ==
  /\ mode = "async"
  /\ tasks[1].pc = "await2" /\ tasks[2].pc = "await2"
  /\ tasks[1].x1.auth = async.auth /\ tasks[2].x1.auth = async.auth
  /\ tasks[1].rebinds = 1 /\ tasks[2].rebinds = 1
  /\ ops.unauth = 2
  /\ AsyncRebinds = 2
  /\ Len(httpx) = 1
  /\ httpx[1].sent = 4

\* C14, as claimed: the client holds one auth object, and it is the object
\* its live connection resource sends requests with, whatever requests,
\* refreshes, close() calls and rebuilds of the httpx client came before.
C14_ClientAuthIsBoundAuth ==
  /\ (mode = "sync" /\ sync.constructed) => sync.session.auth # NoAuth
  /\ (mode = "async" /\ async._client # 0 /\ ~httpx[async._client].closed) =>
       httpx[async._client].auth = async.auth

\* the connection resources ever created for the client of the run
\* (the Session of the blocking client is created by its constructor)
Created == IF mode = "sync" THEN 1 ELSE Len(httpx)

\* C15, as claimed: a client's connection resource is created at most once,
\* for the async client by its first request and not before (so that a
\* close() before any request creates and releases nothing), and it is
\* released once: no resource is created after one was released.
C15_CreatedOnceReleasedOnce ==
  /\ Created <= 1
  /\ mode = "async" =>
       /\ \A r \in DOMAIN httpx : httpx[r].sent >= 1
       /\ (Len(httpx) = 0) => async._client = 0
       /\ \A r \in DOMAIN httpx : httpx[r].closed => httpx[r].acloseCalls >= 1

\* the endpoint and the credentials a client stores
DeviceEndpoint(c) == <<c.ip, c.port, c.protocol, c.base_url>>
StoredCredentials(c) == <<c.username, c.password>>

\* this step belongs to a call of _request
RequestStep ==
  \/ scall' # scall /\ scall'.op = "request"
  \/ acall' # acall /\ acall'.op = "request"
  \/ \E t \in Tasks : tasks'[t] # tasks[t] /\ tasks'[t].op = "request"

\* in this step the first exchange of a call ended in 401
UnauthorizedStep == ops'.unauth # ops.unauth

\* what no step changes: endpoint, credentials, options and the auth object
\* stored in the AsyncClient, and the options of every connection resource;
\* and what only the step after a first 401 changes: the auth object bound
\* to a connection resource
FrameOfStep ==
  /\ DeviceEndpoint(sync') = DeviceEndpoint(sync)
  /\ DeviceEndpoint(async') = DeviceEndpoint(async)
  /\ StoredCredentials(sync') = StoredCredentials(sync)
  /\ StoredCredentials(async') = StoredCredentials(async)
  /\ sync'.session.conf = sync.session.conf
  /\ async'.client_kwargs = async.client_kwargs
  /\ async'.auth = async.auth
  /\ Len(httpx') >= Len(httpx)
  /\ \A r \in DOMAIN httpx : httpx'[r].kwargs = httpx[r].kwargs
  /\ ~UnauthorizedStep =>
       /\ sync'.session.auth = sync.session.auth
       /\ \A r \in DOMAIN httpx : httpx'[r].auth = httpx[r].auth

\* the one other field a step of a request call changes: _client, when the
\* property client builds the httpx client from the stored auth object and
\* options
LazyCreation ==
  /\ async._client = 0
  /\ Len(httpx') = Len(httpx) + 1
  /\ async'._client = Len(httpx')
  /\ httpx'[async'._client].kwargs = async.client_kwargs
  /\ ~UnauthorizedStep => httpx'[async'._client].auth = async.auth

\* C16, as claimed: no step changes the endpoint or the stored credentials,
\* the only change to a connection resource is the replacement of its bound
\* auth object by the refresh, and a step of a request call other than the
\* one after a first 401 leaves the bound auth object and every other field
\* of the client as they were.
C16_AsClaimed ==
  [][/\ FrameOfStep
     /\ (RequestStep /\ ~UnauthorizedStep) => async'._client = async._client]_vars

\* C16, amended: as claimed, except that a step of a request call of the
\* async client may set _client, from None to the httpx client the property
\* builds from the stored auth object and options.
C16_FrameOfRequests ==
  [][/\ FrameOfStep
     /\ (RequestStep /\ async'._client # async._client) => LazyCreation]_vars

\* an async call whose first exchange timed out has ended after another got
\* 200, no call has seen 401, and the httpx client still carries the auth
\* object of the constructor
C16_Witness ==
  /\ mode = "async"
  /\ acall.pc = "done"
  /\ acall.first = Fail("read_timeout")
  /\ ops.started >= 2
  /\ ops.unauth = 0
  /\ async._client = 1
  /\ httpx[1].auth = async.auth
  /\ httpx[1].sent >= 2

\* the log records written so far by the calls on record
LogRecords ==
  UNION {{c.logs[i] : i \in 1..Len(c.logs)} : c \in Completed \cup InFlight}

\* the values interpolated into log record rec
TextOf(rec) == {rec.text[i] : i \in 1..Len(rec.text)}

\* C17: no log record written by a request call, whatever its path (a
\* response other than 401, 401 and a retry, 401 twice, each kind of
\* transport failure), holds the username or the password: a record holds
\* the endpoint of the call and, when written by the generic except clause,
\* the text of the failure, and nothing else.
C17_CredentialsNeverLogged ==
  \A rec \in LogRecords :
    /\ args.username \notin TextOf(rec)
    /\ args.password \notin TextOf(rec)
    /\ rec.text[1] = EndpointArg
    /\ rec.event # "request_error" => Len(rec.text) = 1
    /\ rec.event = "request_error" =>
         /\ Len(rec.text) = 2
         /\ \E f \in Failures : rec.text[2] = ExcText(f)

\* a blocking call of the client built for viewer got 401, refreshed, was
\* redirected too often on the retry and has logged both events
C17_Witness ==
  /\ mode = "sync"
  /\ args.username = "viewer"
  /\ scall.pc = "done"
  /\ scall.first = Resp(401)
  /\ scall.second = Fail("redirects")
  /\ Len(scall.logs) = 2
  /\ scall.logs[1].event = "got_401"
  /\ scall.logs[2].event = "request_error"
  /\ scall.logs[2].text = <<EndpointArg, ExcText("redirects")>>

\* C18, as claimed: on the async client, once a close() call or a scope exit
\* has ended and no request call was started since, every httpx client ever
\* built for the AsyncClient has been released: a request call that was
\* suspended while close() ran builds no httpx client when it resumes.
C18_NoLiveResourceAfterClose ==
  (mode = "async" /\ ops.closed > 0 /\ ~ops.sinceClose) =>
    \A r \in DOMAIN httpx : httpx[r].closed

\* C19, as claimed: on the async client, however close() calls interleave
\* with each other and with request calls, no httpx client is released on
\* the transport more than once (aclose() does nothing on a client that is
\* closed already), and a close() that resumes after aclose() does not clear
\* the reference to an httpx client built meanwhile: no open httpx client is
\* cut off from _client.
C19_CloseClearsOnlyItsOwnResource ==
  mode = "async" =>
    /\ \A r \in DOMAIN httpx : httpx[r].releases <= 1
    /\ \A r \in DOMAIN httpx : ~httpx[r].closed => async._client = r

\* C20: every request call ends.  Given that every exchange that was sent
\* ends in a response or a transport failure, a task that is suspended in a
\* request call is free again later, whatever the other tasks do and however
\* often they get 401 and rebind the auth object meanwhile; a call that ended
\* has returned a response or raised; a blocking call is never left
\* unfinished; and no call, ended or suspended, has more than two exchanges.
C20_RequestTerminates ==
  /\ \A t \in Tasks : (tasks[t].pc \in {"await1", "await2"}) ~> (tasks[t].pc = "idle")
  /\ [](\A c \in Completed : c.result.kind \in {"returned", "raised"})
  /\ [](scall.pc \in {"idle", "done"})
  /\ [](\A c \in Completed \cup InFlight : c.exchanges <= 2)

\* every call the bound allows was started on the async client, each got 401
\* on its first exchange and rebound the auth object, the last to end got 401
\* on its retry too, and all of them have ended
C20_Witness ==
  /\ mode = "async"
  /\ ops.started = MaxOps
  /\ ops.unauth = MaxOps
  /\ AsyncRebinds = MaxOps
  /\ \A t \in Tasks : tasks[t].pc = "idle"
  /\ acall.pc = "done"
  /\ acall.second = Resp(401)
  /\ acall.exchanges = 2
  /\ acall.result.kind = "returned"

====
